---- MODULE Spec2Model ----
(***************************************************************************)
(* A model of nxbt's controller front end.                                 *)
(*                                                                         *)
(*   src/main.py       the Flask handlers over `wrapper` and main_thread,  *)
(*                     the loop that feeds server.state['direct_input']   *)
(*                     and records / replays packets.                      *)
(*   src/nxbt/bluez.py toggle_clean_bluez, _run_command and                *)
(*                     replace_mac_addresses.                              *)
(*                                                                         *)
(* Spec is the input loop running concurrently with the HTTP handlers and   *)
(* the server thread; SpecToggle is a host on which toggle_clean_bluez is  *)
(* called repeatedly; SpecMac is one on which replace_mac_addresses is.   *)
(***************************************************************************)
EXTENDS Integers, Sequences, FiniteSets, TLC

\* ------------------------------------------------------------------ bounds

\* Longest recorded sequence the model follows (the code's list is unbounded).
MaxLen == 2

\* ------------------------------------------------------------ packet values

\* DIRECT_INPUT_IDLE_PACKET, the packet wrapper['packet'] starts as.
DIRECT_INPUT_IDLE_PACKET == "idle"

\* The packets a client may POST to /api/gamepad.
Packets == {DIRECT_INPUT_IDLE_PACKET, "pressB"}

\* json.loads(json.dumps(p)): a fresh value equal in content to p.  Packets are
\* JSON values already (they come from request.json), so the round trip keeps
\* the content and only drops the reference.
JsonCopy(p) == p

\* The lists a client may POST to /api/set_input_list.
InputLists == UNION {[1..k -> Packets] : k \in 0..MaxLen}

\* ------------------------------------------------------------------- state

VARIABLES
    server_state,    \* server.state['state']
    direct_input,    \* server.state['direct_input']
    packet,          \* wrapper['packet']
    recording,       \* wrapper['recording']
    playing,         \* wrapper['playing']
    has_input_list,  \* whether the key 'input_list' is in wrapper
    input_list,      \* wrapper['input_list'] (<<>> while the key is absent)
    pc,              \* the line main_thread is about to execute
    tick_playing,    \* what line 103 found in wrapper['playing'] this tick
    iter_list,       \* the list object the for loop of line 104 iterates
    iter_idx,        \* the list iterator's index: elements already yielded
    iter_current,    \* the iterated object is still wrapper['input_list']
    pass_sent,       \* history: packets written by the current for loop
    rec_log,         \* history: packets line 112 appended to the current list
    last_tx,         \* history: the loop's last event: none/direct/play/pause
    req              \* history: the last HTTP request served

loop_vars == <<server_state, direct_input, packet, recording, playing,
               has_input_list, input_list, pc, tick_playing, iter_list,
               iter_idx, iter_current, pass_sent, rec_log, last_tx, req>>

\* The host that src/nxbt/bluez.py acts on, and its callers' position.
VARIABLES
    is_root,           \* the process runs as root
    service_file,      \* lines of /lib/systemd/system/bluetooth.service
    service_file_exists,
    override_present,  \* .../bluetooth.service.d/nxbt.conf is a file
    override_text,     \* its content (<<>> while absent)
    units_override,    \* systemd's loaded units include the override
    service_mode,      \* how the running bluetoothd was started
    hcitool_present,   \* which("hcitool") is not None
    hciconfig_present, \* which("hciconfig") is not None
    cmd_log,           \* commands the current call ran: argv and exit status
    last_call,         \* the last toggle_clean_bluez call: argument, exception
    n_calls,           \* toggle_clean_bluez calls made
    mac_pc,            \* replace_mac_addresses: idle/vendor/reset/done/raised
    adapter_paths,     \* its arguments
    addresses,
    mac_i,             \* its loop variable i
    mac_raised,        \* the exception it ended with ("none" if none)
    objects,           \* what GetManagedObjects() of org.bluez returns
    alias_filter,      \* find_connected_devices' argument (<<>>: False)
    conn_devices,      \* its local list when it ends
    find_returned,     \* the value its last call returned
    find_called        \* whether find_connected_devices was called

host_vars == <<is_root, service_file, service_file_exists, hcitool_present,
               hciconfig_present>>

toggle_vars == <<override_present, override_text, units_override,
                 service_mode, last_call, n_calls>>

mac_vars == <<mac_pc, adapter_paths, addresses, mac_i, mac_raised>>

find_vars == <<objects, alias_filter, conn_devices, find_returned, find_called>>

bluez_vars == <<host_vars, toggle_vars, mac_vars, cmd_log, find_vars>>

vars == <<loop_vars, bluez_vars>>

Requests == {"none", "get_gamepad", "startRecording", "stopRecording",
             "startPlayback", "stopPlayback", "set_input_list",
             "clear_input_list", "get_input_list",
             "get_input_list:KeyError"}

TypeOK ==
    /\ server_state \in {"initializing", "connected", "crashed"}
    /\ direct_input \in Packets
    /\ packet \in Packets
    /\ recording \in BOOLEAN
    /\ playing \in BOOLEAN
    /\ has_input_list \in BOOLEAN
    /\ input_list \in InputLists
    /\ pc \in {"L96", "L101", "L103", "L104", "L105", "L108", "L110",
               "L111", "L112", "failed"}
    /\ tick_playing \in BOOLEAN
    /\ iter_list \in InputLists
    /\ iter_idx \in 0..Len(iter_list)
    /\ iter_current \in BOOLEAN
    /\ pass_sent \in InputLists
    /\ rec_log \in InputLists
    /\ last_tx \in {"none", "direct", "play", "pause"}
    /\ req \in Requests

LoopInit ==
    /\ server_state = "initializing"
    /\ direct_input = DIRECT_INPUT_IDLE_PACKET
    /\ packet = JsonCopy(DIRECT_INPUT_IDLE_PACKET)
    /\ recording = FALSE
    /\ playing = FALSE
    /\ has_input_list = FALSE
    /\ input_list = <<>>
    /\ pc = "L96"
    /\ tick_playing = FALSE
    /\ iter_list = <<>>
    /\ iter_idx = 0
    /\ iter_current = FALSE
    /\ pass_sent = <<>>
    /\ rec_log = <<>>
    /\ last_tx = "none"
    /\ req = "none"

\* ----------------------------------------------------------- HTTP handlers

main_locals == <<pc, tick_playing, iter_list, iter_idx, pass_sent, last_tx>>

\* POST /api/gamepad
get_gamepad(p) ==
    /\ packet' = p
    /\ req' = "get_gamepad"
    /\ UNCHANGED <<server_state, direct_input, recording, playing,
                   has_input_list, input_list, iter_current, rec_log,
                   main_locals>>

\* set_recording as it would be if starting a recording also emptied the
\* recorded sequence.
set_recording_fresh(v) ==
    /\ recording' = v
    /\ has_input_list' = IF v THEN TRUE ELSE has_input_list
    /\ input_list' = IF v THEN <<>> ELSE input_list
    /\ iter_current' = IF v THEN FALSE ELSE iter_current
    /\ rec_log' = IF v THEN <<>> ELSE rec_log
    /\ req' = IF v THEN "startRecording" ELSE "stopRecording"
    /\ UNCHANGED <<server_state, direct_input, packet, playing, main_locals>>

\* set_recording as it would be with the guard "ignored while playing".
set_recording_guarded(v) ==
    /\ recording' = IF v /\ playing THEN recording ELSE v
    /\ req' = IF v THEN "startRecording" ELSE "stopRecording"
    /\ UNCHANGED <<server_state, direct_input, packet, playing,
                   has_input_list, input_list, iter_current, rec_log,
                   main_locals>>

\* POST /api/set_recording
set_recording(v) ==
    /\ recording' = v
    /\ req' = IF v THEN "startRecording" ELSE "stopRecording"
    /\ UNCHANGED <<server_state, direct_input, packet, playing,
                   has_input_list, input_list, iter_current, rec_log,
                   main_locals>>

\* set_playing as it would be if it also rewound the playback position.
set_playing_rewind(v) ==
    /\ playing' = v
    /\ iter_idx' = IF v THEN 0 ELSE iter_idx
    /\ pass_sent' = IF v THEN <<>> ELSE pass_sent
    /\ req' = IF v THEN "startPlayback" ELSE "stopPlayback"
    /\ UNCHANGED <<server_state, direct_input, packet, recording,
                   has_input_list, input_list, iter_current, rec_log,
                   pc, tick_playing, iter_list, last_tx>>

\* POST /api/set_playing
set_playing(v) ==
    /\ playing' = v
    /\ req' = IF v THEN "startPlayback" ELSE "stopPlayback"
    /\ UNCHANGED <<server_state, direct_input, packet, recording,
                   has_input_list, input_list, iter_current, rec_log,
                   main_locals>>

\* POST /api/set_input_list: binds the key to a new list object.
set_input_list(l) ==
    /\ has_input_list' = TRUE
    /\ input_list' = l
    /\ iter_current' = FALSE
    /\ rec_log' = <<>>
    /\ req' = "set_input_list"
    /\ UNCHANGED <<server_state, direct_input, packet, recording, playing,
                   main_locals>>

\* clear_input_list as it would be if it also stopped playback.
clear_input_list_stop ==
    /\ has_input_list' = TRUE
    /\ input_list' = <<>>
    /\ playing' = FALSE
    /\ iter_current' = FALSE
    /\ rec_log' = <<>>
    /\ req' = "clear_input_list"
    /\ UNCHANGED <<server_state, direct_input, packet, recording,
                   main_locals>>

\* GET /api/clear_input_list: binds the key to a new empty list object.
clear_input_list ==
    /\ has_input_list' = TRUE
    /\ input_list' = <<>>
    /\ iter_current' = FALSE
    /\ rec_log' = <<>>
    /\ req' = "clear_input_list"
    /\ UNCHANGED <<server_state, direct_input, packet, recording, playing,
                   main_locals>>

\* GET /api/get_input_list: jsonify(wrapper['input_list']); the subscript
\* raises KeyError while the key is not in the dict.
get_input_list ==
    /\ req' = IF has_input_list THEN "get_input_list"
              ELSE "get_input_list:KeyError"
    /\ UNCHANGED <<server_state, direct_input, packet, recording, playing,
                   has_input_list, input_list, iter_current, rec_log,
                   main_locals>>

\* ------------------------------------------------------- the server thread

\* server.run reaches the console: state['state'] becomes 'connected'.
ServerConnect ==
    /\ server_state = "initializing"
    /\ server_state' = "connected"
    /\ UNCHANGED <<direct_input, packet, recording, playing, has_input_list,
                   input_list, iter_current, rec_log, main_locals, req>>

\* The link drops: state['state'] leaves 'connected'.
ServerDisconnect ==
    /\ server_state = "connected"
    /\ server_state' = "crashed"
    /\ UNCHANGED <<direct_input, packet, recording, playing, has_input_list,
                   input_list, iter_current, rec_log, main_locals, req>>

\* ------------------------------------------------------------- main_thread

http_state == <<packet, recording, playing, req>>

\* Lines 95-99: poll until the server reports 'connected'.
WaitConnected ==
    /\ pc = "L96"
    /\ server_state = "connected"
    /\ pc' = "L101"
    /\ UNCHANGED <<server_state, tick_playing, direct_input, has_input_list, input_list,
                   iter_list, iter_idx, iter_current, pass_sent, rec_log,
                   last_tx, http_state>>

\* Line 101: wrapper['input_list'] = []
InitInputList ==
    /\ pc = "L101"
    /\ has_input_list' = TRUE
    /\ input_list' = <<>>
    /\ iter_current' = FALSE
    /\ rec_log' = <<>>
    /\ pc' = "L103"
    /\ UNCHANGED <<server_state, tick_playing, direct_input, iter_list, iter_idx,
                   pass_sent, last_tx, http_state>>

\* Line 103 as it would be if the test never took the playback branch.
TestPlaying_never_plays ==
    /\ pc = "L103"
    /\ tick_playing' = playing
    /\ pc' = "L110"
    /\ UNCHANGED <<server_state, direct_input, has_input_list, input_list,
                   iter_list, iter_idx, iter_current, pass_sent, rec_log,
                   last_tx, http_state>>

\* Line 103: if wrapper['playing']
TestPlaying ==
    /\ pc = "L103"
    /\ tick_playing' = playing
    /\ pc' = IF playing THEN "L104" ELSE "L110"
    /\ UNCHANGED <<server_state, direct_input, has_input_list, input_list,
                   iter_list, iter_idx, iter_current, pass_sent, rec_log,
                   last_tx, http_state>>

\* Line 104: the for statement takes an iterator over the list object that
\* wrapper['input_list'] names now.
ForStart ==
    /\ pc = "L104"
    /\ iter_list' = input_list
    /\ iter_idx' = 0
    /\ iter_current' = TRUE
    /\ pass_sent' = <<>>
    /\ pc' = "L105"
    /\ UNCHANGED <<server_state, tick_playing, direct_input, has_input_list, input_list,
                   rec_log, last_tx, http_state>>

\* The for loop as it would be if it indexed element 0 before testing the
\* length: an IndexError on an empty list ends main_thread.
ForNext_index_first ==
    /\ pc = "L105"
    /\ IF iter_list = <<>>
       THEN /\ pc' = "failed"
            /\ UNCHANGED <<direct_input, iter_idx, pass_sent, last_tx>>
       ELSE IF iter_idx < Len(iter_list)
       THEN /\ direct_input' = iter_list[iter_idx + 1]
            /\ iter_idx' = iter_idx + 1
            /\ pass_sent' = Append(pass_sent, iter_list[iter_idx + 1])
            /\ last_tx' = "play"
            /\ pc' = "L105"
       ELSE /\ pc' = "L108"
            /\ UNCHANGED <<direct_input, iter_idx, pass_sent, last_tx>>
    /\ UNCHANGED <<server_state, tick_playing, has_input_list, input_list,
                   iter_list, iter_current, rec_log, http_state>>

\* The for loop as it would be without lines 107-109: no pause, straight back
\* to line 103.
ForNext_no_pause ==
    /\ pc = "L105"
    /\ IF iter_idx < Len(iter_list)
       THEN /\ direct_input' = iter_list[iter_idx + 1]
            /\ iter_idx' = iter_idx + 1
            /\ pass_sent' = Append(pass_sent, iter_list[iter_idx + 1])
            /\ last_tx' = "play"
            /\ pc' = "L105"
       ELSE /\ pc' = "L103"
            /\ UNCHANGED <<direct_input, iter_idx, pass_sent, last_tx>>
    /\ UNCHANGED <<server_state, tick_playing, has_input_list, input_list,
                   iter_list, iter_current, rec_log, http_state>>

\* Lines 104-106: the iterator yields the next element, which is written to
\* direct_input; or it is exhausted and the loop ends (line 107).
ForNext ==
    /\ pc = "L105"
    /\ IF iter_idx < Len(iter_list)
       THEN /\ direct_input' = iter_list[iter_idx + 1]
            /\ iter_idx' = iter_idx + 1
            /\ pass_sent' = Append(pass_sent, iter_list[iter_idx + 1])
            /\ last_tx' = "play"
            /\ pc' = "L105"
       ELSE /\ pc' = "L108"
            /\ UNCHANGED <<direct_input, iter_idx, pass_sent, last_tx>>
    /\ UNCHANGED <<server_state, tick_playing, has_input_list, input_list, iter_list,
                   iter_current, rec_log, http_state>>

\* Lines 108-109 as they would be without the continue: the tick falls
\* through to line 110.
LoopPause_no_continue ==
    /\ pc = "L108"
    /\ last_tx' = "pause"
    /\ pc' = "L110"
    /\ UNCHANGED <<server_state, tick_playing, direct_input, has_input_list,
                   input_list, iter_list, iter_idx, iter_current, pass_sent,
                   rec_log, http_state>>

\* Lines 108-109 as they would be if the continue led back into the for
\* statement and not to the test of line 103.
LoopPause_replays ==
    /\ pc = "L108"
    /\ last_tx' = "pause"
    /\ pc' = "L104"
    /\ UNCHANGED <<server_state, tick_playing, direct_input, has_input_list,
                   input_list, iter_list, iter_idx, iter_current, pass_sent,
                   rec_log, http_state>>

\* Lines 108-109: time.sleep(5); continue
LoopPause ==
    /\ pc = "L108"
    /\ last_tx' = "pause"
    /\ pc' = "L103"
    /\ UNCHANGED <<server_state, tick_playing, direct_input, has_input_list, input_list,
                   iter_list, iter_idx, iter_current, pass_sent, rec_log,
                   http_state>>

\* Line 110: server.state['direct_input'] = json.loads(json.dumps(wrapper['packet']))
SendDirect ==
    /\ pc = "L110"
    /\ direct_input' = JsonCopy(packet)
    /\ last_tx' = "direct"
    /\ pc' = "L111"
    /\ UNCHANGED <<server_state, tick_playing, has_input_list, input_list, iter_list,
                   iter_idx, iter_current, pass_sent, rec_log, http_state>>

\* Line 111: if wrapper['recording']   (line 113's sleep ends the tick)
TestRecording ==
    /\ pc = "L111"
    /\ pc' = IF recording THEN "L112" ELSE "L103"
    /\ UNCHANGED <<server_state, tick_playing, direct_input, has_input_list, input_list,
                   iter_list, iter_idx, iter_current, pass_sent, rec_log,
                   last_tx, http_state>>

\* Line 112 as it would be with insert(0, ...) in place of append.
RecordAppend_insert_front ==
    /\ pc = "L112"
    /\ Len(input_list) < MaxLen
    /\ input_list' = <<JsonCopy(packet)>> \o input_list
    /\ rec_log' = Append(rec_log, packet)
    /\ pc' = "L103"
    /\ UNCHANGED <<server_state, tick_playing, direct_input, has_input_list,
                   iter_list, iter_idx, iter_current, pass_sent, last_tx,
                   http_state>>

\* Line 112: wrapper['input_list'].append(json.loads(json.dumps(wrapper['packet'])))
\* then line 113's sleep.  The list is unbounded in the code; the model stops
\* following it at MaxLen.
RecordAppend ==
    /\ pc = "L112"
    /\ Len(input_list) < MaxLen
    /\ input_list' = Append(input_list, JsonCopy(packet))
    /\ rec_log' = Append(rec_log, packet)
    /\ pc' = "L103"
    /\ UNCHANGED <<server_state, tick_playing, direct_input, has_input_list, iter_list,
                   iter_idx, iter_current, pass_sent, last_tx, http_state>>

main_thread ==
    \/ WaitConnected
    \/ InitInputList
    \/ TestPlaying
    \/ ForStart
    \/ ForNext
    \/ LoopPause
    \/ SendDirect
    \/ TestRecording
    \/ RecordAppend

\* ------------------------------------------------------ src/nxbt/bluez.py

\* toggle_clean_bluez calls the model follows.
MaxCalls == 3

\* Adapters one replace_mac_addresses call is given.
MaxAdapters == 2

\* A Python str is a sequence of tokens; Str(t) is a literal of one token.
Str(t) == <<t>>

\* s.split(sep): the pieces of s between the occurrences of sep.
RECURSIVE Split(_, _)
Split(s, sep) ==
    IF \A k \in 1..Len(s) : s[k] # sep
    THEN <<s>>
    ELSE LET k == CHOOSE j \in 1..Len(s) :
                      s[j] = sep /\ \A m \in 1..(j - 1) : s[m] # sep
         IN  <<SubSeq(s, 1, k - 1)>> \o Split(SubSeq(s, k + 1, Len(s)), sep)

\* seq[-1]
Last(seq) == seq[Len(seq)]

\* What subprocess.run can report of a command: its exit status and stderr.
StderrTexts == {<<>>, <<"\n">>, <<"Failed", "\n">>}

Outcomes == [exit : {0, 1}, stderr : StderrTexts]

\* Line 165: result.stderr.decode("utf-8").replace("\n", "")
cmd_err(o) == SelectSeq(o.stderr, LAMBDA c : c # "\n")

\* Lines 166-167: _run_command raises when cmd_err is not empty.
_run_command_raises(o) == cmd_err(o) # <<>>

\* What _run_command leaves in the log of commands run.
Ran(argv, o) == [argv |-> argv, exit |-> o.exit]

\* /lib/systemd/system/bluetooth.service as shipped, and one with no
\* ExecStart line.
ServiceFileOk ==
    << <<"[Unit]", "\n">>, <<"[Service]", "\n">>,
       <<"ExecStart=", "/usr/libexec/bluetooth/bluetoothd", "\n">>,
       <<"Restart=", "on-failure", "\n">> >>

ServiceFileNoExecStart ==
    << <<"[Unit]", "\n">>, <<"[Service]", "\n">>,
       <<"#", "ExecStart=", "/usr/libexec/bluetooth/bluetoothd", "\n">> >>

\* line.startswith("ExecStart=")
StartsWithExecStart(line) == Len(line) > 0 /\ line[1] = "ExecStart="

\* line.strip(): the line without its newline.
Strip(line) == SelectSeq(line, LAMBDA c : c # "\n")

\* ExecStartLine as it would be if the for loop had no else clause (lines
\* 125-126): a file with no ExecStart line yields its first line.
ExecStartLine_no_else(lines) ==
    IF \E k \in 1..Len(lines) : StartsWithExecStart(lines[k])
    THEN CHOOSE k \in 1..Len(lines) :
             /\ StartsWithExecStart(lines[k])
             /\ \A m \in 1..(k - 1) : ~StartsWithExecStart(lines[m])
    ELSE 1

\* Lines 120-126: the first line starting with ExecStart=, or 0 when the for
\* loop ends without a break.
ExecStartLine(lines) ==
    IF \E k \in 1..Len(lines) : StartsWithExecStart(lines[k])
    THEN CHOOSE k \in 1..Len(lines) :
             /\ StartsWithExecStart(lines[k])
             /\ \A m \in 1..(k - 1) : ~StartsWithExecStart(lines[m])
    ELSE 0

\* Lines 123 and 128: the override's text.
OverrideText(lines) ==
    <<"[Service]", "\n", "ExecStart=", "\n">>
        \o Strip(lines[ExecStartLine(lines)]) \o <<" --compat --noplugin=*">>

HostInit ==
    /\ is_root = TRUE
    /\ service_file = ServiceFileOk
    /\ service_file_exists = TRUE
    /\ hcitool_present = TRUE
    /\ hciconfig_present = TRUE

HostAny ==
    /\ is_root \in BOOLEAN
    /\ service_file \in {ServiceFileOk, ServiceFileNoExecStart}
    /\ service_file_exists \in BOOLEAN
    /\ hcitool_present \in BOOLEAN
    /\ hciconfig_present \in BOOLEAN

ToggleInit ==
    /\ override_present = FALSE
    /\ override_text = <<>>
    /\ units_override = FALSE
    /\ service_mode = "default"
    /\ last_call = [arg |-> FALSE, raised |-> "none"]
    /\ n_calls = 0
    /\ cmd_log = <<>>

\* ToggleFile as it would be without the early return of lines 116-118: an
\* override that is already there is written again.
ToggleFile_no_early_return(toggle) ==
    IF toggle
    THEN IF ~service_file_exists THEN "FileNotFoundError"
         ELSE IF ExecStartLine(service_file) = 0 THEN "Exception"
         ELSE IF ~is_root THEN "PermissionError"
         ELSE "go"
    ELSE IF ~override_present THEN "return"
         ELSE IF ~is_root THEN "PermissionError"
         ELSE "go"

\* Lines 115-138: what the call does to the override file before it runs any
\* command: "return" (lines 118, 138), an exception, or "go" with the file
\* written or removed.
ToggleFile(toggle) ==
    IF toggle
    THEN IF override_present THEN "return"
         ELSE IF ~service_file_exists THEN "FileNotFoundError"
         ELSE IF ExecStartLine(service_file) = 0 THEN "Exception"
         ELSE IF ~is_root THEN "PermissionError"
         ELSE "go"
    ELSE IF ~override_present THEN "return"
         ELSE IF ~is_root THEN "PermissionError"
         ELSE "go"

\* Lines 140-144: systemctl daemon-reload, then systemctl restart bluetooth.
\* A command that exits 0 did its work: daemon-reload makes systemd load the
\* units as they are on disk, restart starts bluetoothd from the loaded units.
ReloadAndRestart(toggle, o1, o2) ==
    LET reloaded == IF o1.exit = 0 THEN toggle ELSE units_override
        reload == Ran(<<"systemctl", "daemon-reload">>, o1)
        restart == Ran(<<"systemctl", "restart", "bluetooth">>, o2)
    IN  IF _run_command_raises(o1)
        THEN /\ cmd_log' = <<reload>>
             /\ units_override' = reloaded
             /\ service_mode' = service_mode
             /\ last_call' = [arg |-> toggle, raised |-> "Exception"]
        ELSE /\ cmd_log' = <<reload, restart>>
             /\ units_override' = reloaded
             /\ service_mode' = IF o2.exit # 0 THEN service_mode
                                ELSE IF reloaded THEN "clean" ELSE "default"
             /\ last_call' = [arg |-> toggle,
                              raised |-> IF _run_command_raises(o2)
                                         THEN "Exception" ELSE "none"]

\* toggle_clean_bluez(toggle), with o1 and o2 what its two commands report.
toggle_clean_bluez(toggle, o1, o2) ==
    /\ n_calls < MaxCalls
    /\ n_calls' = n_calls + 1
    /\ IF ToggleFile(toggle) = "go"
       THEN /\ override_present' = toggle
            /\ override_text' = IF toggle THEN OverrideText(service_file)
                                ELSE <<>>
            /\ ReloadAndRestart(toggle, o1, o2)
       ELSE /\ cmd_log' = <<>>
            /\ last_call' = [arg |-> toggle,
                             raised |-> IF ToggleFile(toggle) = "return"
                                        THEN "none" ELSE ToggleFile(toggle)]
            /\ UNCHANGED <<override_present, override_text, units_override,
                           service_mode>>
    /\ UNCHANGED <<host_vars>>

\* The adapter paths and addresses replace_mac_addresses is called with.
AdapterPath(id) == <<"/", "org", "/", "bluez", "/", id>>

AdapterPaths == {AdapterPath("hci0"), AdapterPath("hci1")}

MacAddresses ==
    { <<"11", ":", "22", ":", "33", ":", "44", ":", "55", ":", "66">>,
      <<"98", ":", "B6", ":", "E9", ":", "E6", ":", "88", ":", "7F">> }

PathLists == UNION {[1..k -> AdapterPaths] : k \in 0..MaxAdapters}

AddressLists == UNION {[1..k -> MacAddresses] : k \in 0..MaxAdapters}

MacInit ==
    /\ mac_pc = "idle"
    /\ adapter_paths = <<>>
    /\ addresses = <<>>
    /\ mac_i = 0
    /\ mac_raised = "none"

\* Line 198: adapter_id = adapter_paths[i].split('/')[-1]
AdapterId(path) == Last(Split(path, "/"))

\* Lines 199-202: the vendor command for adapter_id and address.
VendorCmd(adapter_id, address) ==
    LET mac == Split(address, ":")
    IN  <<Str("hcitool"), Str("-i"), adapter_id, Str("cmd"), Str("0x3f"),
          Str("0x001"),
          Str("0x") \o mac[6], Str("0x") \o mac[5], Str("0x") \o mac[4],
          Str("0x") \o mac[3], Str("0x") \o mac[2], Str("0x") \o mac[1]>>

\* Line 204
ResetCmd(adapter_id) == <<Str("hciconfig"), adapter_id, Str("reset")>>

\* replace_mac_addresses as it would be without the test of lines 189-192:
\* a missing hciconfig is met only when the first reset is run.
replace_mac_addresses_hcitool_only(paths, addrs) ==
    /\ mac_pc \in {"idle", "done", "raised"}
    /\ adapter_paths' = paths
    /\ addresses' = addrs
    /\ cmd_log' = <<>>
    /\ mac_i' = 0
    /\ IF ~hcitool_present
       THEN mac_pc' = "raised" /\ mac_raised' = "Exception"
       ELSE IF addrs # <<>> /\ Len(addrs) # Len(paths)
       THEN mac_pc' = "raised" /\ mac_raised' = "AssertionError"
       ELSE /\ mac_pc' = IF Len(paths) = 0 THEN "done" ELSE "vendor"
            /\ mac_raised' = "none"
    /\ UNCHANGED <<host_vars>>

\* Lines 185-197: the call, up to the first iteration of its loop.
replace_mac_addresses(paths, addrs) ==
    /\ mac_pc \in {"idle", "done", "raised"}
    /\ adapter_paths' = paths
    /\ addresses' = addrs
    /\ cmd_log' = <<>>
    /\ mac_i' = 0
    /\ IF ~hcitool_present \/ ~hciconfig_present
       THEN mac_pc' = "raised" /\ mac_raised' = "Exception"
       ELSE IF addrs # <<>> /\ Len(addrs) # Len(paths)
       THEN mac_pc' = "raised" /\ mac_raised' = "AssertionError"
       ELSE /\ mac_pc' = IF Len(paths) = 0 THEN "done" ELSE "vendor"
            /\ mac_raised' = "none"
    /\ UNCHANGED <<host_vars>>

\* Lines 198-203 of iteration i: the vendor command, o what it reports.
\* (Python's i is mac_i; sequences here start at 1.)
MacVendor(o) ==
    /\ mac_pc = "vendor"
    /\ IF Len(addresses) < mac_i + 1
       THEN /\ mac_pc' = "raised"
            /\ mac_raised' = "IndexError"
            /\ UNCHANGED cmd_log
       ELSE /\ cmd_log' = Append(cmd_log,
                Ran(VendorCmd(AdapterId(adapter_paths[mac_i + 1]),
                              addresses[mac_i + 1]), o))
            /\ IF _run_command_raises(o)
               THEN mac_pc' = "raised" /\ mac_raised' = "Exception"
               ELSE mac_pc' = "reset" /\ UNCHANGED mac_raised
    /\ UNCHANGED <<host_vars, adapter_paths, addresses, mac_i>>

\* Line 204 of iteration i: the reset, o what it reports; then the next i.
MacReset(o) ==
    /\ mac_pc = "reset"
    /\ cmd_log' = Append(cmd_log,
           Ran(ResetCmd(AdapterId(adapter_paths[mac_i + 1])), o))
    /\ IF _run_command_raises(o)
       THEN /\ mac_pc' = "raised" /\ mac_raised' = "Exception"
            /\ UNCHANGED mac_i
       ELSE /\ mac_i' = mac_i + 1
            /\ mac_pc' = IF mac_i + 1 < Len(adapter_paths)
                         THEN "vendor" ELSE "done"
            /\ UNCHANGED mac_raised
    /\ UNCHANGED <<host_vars, adapter_paths, addresses>>

\* Objects the BlueZ object manager holds in the model.
MaxObjects == 2

\* str.upper() on the letters the aliases are written with.
ToUpper == ("p" :> "P") @@ ("r" :> "R") @@ ("o" :> "O") @@ ("t" :> "T")
               @@ ("v" :> "V")

Upper(str) ==
    [k \in 1..Len(str) |->
        IF str[k] \in DOMAIN ToUpper THEN ToUpper[str[k]] ELSE str[k]]

\* The aliases of the peers, and the alias filters a caller passes; <<>> is
\* the default, False.
Aliases == {<<"P", "r", "o">>, <<"P", "R", "O">>, <<"T", "V">>}

AliasFilters == {<<>>, <<"p", "r", "o">>, <<"T", "V">>}

\* A managed object: its path, whether it has the Device1 interface and, for
\* a device, its Connected and Alias properties.
ManagedObjects ==
    [path : 1..MaxObjects, is_device : {TRUE}, connected : BOOLEAN,
     alias : Aliases]
    \cup [path : 1..MaxObjects, is_device : {FALSE}, connected : {FALSE},
          alias : {<<>>}]

ObjectLists ==
    {l \in UNION {[1..k -> ManagedObjects] : k \in 0..MaxObjects} :
        \A i, j \in 1..Len(l) : i # j => l[i].path # l[j].path}

\* Lines 60-92: find_objects, the paths of the objects with the interface.
RECURSIVE find_objects(_)
find_objects(objs) ==
    IF objs = <<>> THEN <<>>
    ELSE IF Head(objs).is_device
         THEN <<Head(objs)>> \o find_objects(Tail(objs))
         ELSE find_objects(Tail(objs))

\* Lines 441-445: what one iteration of the loop does to conn_devices.
FindStep(conn, dev, filter) ==
    IF dev.connected
    THEN IF filter # <<>> /\ Upper(dev.alias) = Upper(filter)
         THEN Append(conn, dev.path)
         ELSE Append(conn, dev.path)
    ELSE conn

\* Lines 428-445: the loop over the devices.
RECURSIVE FindLoop(_, _, _)
FindLoop(conn, devs, filter) ==
    IF devs = <<>> THEN conn
    ELSE FindLoop(FindStep(conn, Head(devs), filter), Tail(devs), filter)

\* A returned value: None, or a list.
None == [none |-> TRUE, value |-> <<>>]

Returned(v) == [none |-> FALSE, value |-> v]

FindInit ==
    /\ objects = <<>>
    /\ alias_filter = <<>>
    /\ conn_devices = <<>>
    /\ find_returned = None
    /\ find_called = FALSE

\* BlueZ.find_connected_devices(alias_filter): the function ends after its
\* loop, with no return statement, so the call returns None.
find_connected_devices(filter) ==
    /\ alias_filter' = filter
    /\ conn_devices' = FindLoop(<<>>, find_objects(objects), filter)
    /\ find_returned' = None
    /\ find_called' = TRUE
    /\ UNCHANGED objects

\* Peers appear, connect, disconnect and are renamed.
ObjectsChange ==
    /\ objects' \in ObjectLists
    /\ UNCHANGED <<alias_filter, conn_devices, find_returned, find_called>>

Init == LoopInit /\ HostInit /\ ToggleInit /\ MacInit /\ FindInit

\* The input loop, the HTTP handlers and the server thread run concurrently;
\* nothing of src/nxbt/bluez.py runs meanwhile.
Next ==
    \/ WaitConnected /\ UNCHANGED bluez_vars
    \/ InitInputList /\ UNCHANGED bluez_vars
    \/ TestPlaying /\ UNCHANGED bluez_vars
    \/ ForStart /\ UNCHANGED bluez_vars
    \/ ForNext /\ UNCHANGED bluez_vars
    \/ LoopPause /\ UNCHANGED bluez_vars
    \/ SendDirect /\ UNCHANGED bluez_vars
    \/ TestRecording /\ UNCHANGED bluez_vars
    \/ RecordAppend /\ UNCHANGED bluez_vars
    \/ (\E p \in Packets : get_gamepad(p)) /\ UNCHANGED bluez_vars
    \/ (\E v \in BOOLEAN : set_recording(v)) /\ UNCHANGED bluez_vars
    \/ (\E v \in BOOLEAN : set_playing(v)) /\ UNCHANGED bluez_vars
    \/ (\E l \in InputLists : set_input_list(l)) /\ UNCHANGED bluez_vars
    \/ clear_input_list /\ UNCHANGED bluez_vars
    \/ get_input_list /\ UNCHANGED bluez_vars
    \/ ServerConnect /\ UNCHANGED bluez_vars
    \/ ServerDisconnect /\ UNCHANGED bluez_vars

Spec == Init /\ [][Next]_vars

\* toggle_clean_bluez called again and again on a host of any kind.
ToggleSpecInit == LoopInit /\ HostAny /\ ToggleInit /\ MacInit /\ FindInit

ToggleNext ==
    /\ \E toggle \in BOOLEAN : \E o1, o2 \in Outcomes :
          toggle_clean_bluez(toggle, o1, o2)
    /\ UNCHANGED <<loop_vars, mac_vars, find_vars>>

SpecToggle == ToggleSpecInit /\ [][ToggleNext]_vars

\* replace_mac_addresses called again and again on a host of any kind.
MacSpecInit == LoopInit /\ HostAny /\ ToggleInit /\ MacInit /\ FindInit

MacNext ==
    \/ /\ \E paths \in PathLists, addrs \in AddressLists :
             replace_mac_addresses(paths, addrs)
       /\ UNCHANGED <<loop_vars, toggle_vars, find_vars>>
    \/ (\E o \in Outcomes : MacVendor(o)) /\ UNCHANGED <<loop_vars, toggle_vars, find_vars>>
    \/ (\E o \in Outcomes : MacReset(o)) /\ UNCHANGED <<loop_vars, toggle_vars, find_vars>>

SpecMac == MacSpecInit /\ [][MacNext]_vars

\* main_thread is a thread of its own: the scheduler keeps running it, and
\* every sleep of lines 106, 108 and 113 ends.
MainThreadStep == main_thread /\ UNCHANGED bluez_vars

SpecLive == Init /\ [][Next]_vars /\ WF_vars(MainThreadStep)

\* find_connected_devices called again and again while the peers change.
FindSpecInit == LoopInit /\ HostInit /\ ToggleInit /\ MacInit /\ FindInit

FindNext ==
    \/ /\ \E filter \in AliasFilters : find_connected_devices(filter)
       /\ UNCHANGED <<loop_vars, host_vars, toggle_vars, mac_vars, cmd_log>>
    \/ /\ ObjectsChange
       /\ UNCHANGED <<loop_vars, host_vars, toggle_vars, mac_vars, cmd_log>>

SpecFind == FindSpecInit /\ [][FindNext]_vars

\* ------------------------------------------------------------------ claims

\* The step serves the request `name`: it is the last request afterwards,
\* and it either follows another request or the step is none of main_thread's
\* (each of which moves pc or the iterator) nor the server's.
Arrives(name) ==
    /\ req' = name
    /\ \/ req # name
       \/ (pc' = pc /\ iter_idx' = iter_idx /\ server_state' = server_state)

\* The last n elements of s.
Tail_n(s, n) == SubSeq(s, Len(s) - n + 1, Len(s))

\* C1: the loop appends to the recorded sequence only in a tick in which
\* line 103 found playing false and line 111 found recording true; in a tick
\* that found playing true nothing is appended, whatever recording is.
C1_PlaybackWins ==
    [][Len(rec_log') = Len(rec_log) + 1
         => /\ tick_playing = FALSE
            /\ pc = "L112"
            /\ input_list' = Append(input_list, packet)]_vars

\* C1 witness: both flags are set, the tick found playing true and its pass
\* is over, with the recorded sequence as the pass found it.
C1_Witness ==
    /\ playing /\ recording /\ tick_playing
    /\ pc = "L108"
    /\ iter_current
    /\ pass_sent # <<>>
    /\ input_list = iter_list

\* C2: when a playback pass over the recorded sequence is complete, it has
\* written to direct_input exactly the recorded sequence, whose tail is the
\* packets the recording appended, in the order of their appends.
C2_RoundTrip ==
    (pc = "L108" /\ iter_current)
        => /\ pass_sent = input_list
           /\ Len(rec_log) <= Len(pass_sent)
           /\ Tail_n(pass_sent, Len(rec_log)) = rec_log

\* C2 witness: two different packets were recorded and a pass replayed them.
C2_Witness ==
    /\ pc = "L108" /\ iter_current
    /\ Len(rec_log) = 2
    /\ rec_log[1] # rec_log[2]
    /\ pass_sent = rec_log

\* C3: a pass over an empty recorded sequence writes nothing to direct_input,
\* main_thread never fails, and it can always take its next step.
C3_EmptyPlaybackIdles ==
    /\ pc # "failed"
    /\ (pc \in {"L105", "L108"} /\ iter_list = <<>>)
          => /\ pass_sent = <<>>
             /\ last_tx # "play"
             /\ ENABLED main_thread

\* C3 witness: playback was started on an empty sequence and the pass ended.
C3_Witness ==
    /\ req = "startPlayback" /\ playing
    /\ has_input_list /\ input_list = <<>>
    /\ pc = "L108" /\ iter_list = <<>> /\ iter_current

\* C4 as stated: a startRecording request that arrives while playing is true
\* leaves recording unchanged.
C4_IgnoredWhilePlaying ==
    [][(Arrives("startRecording") /\ playing) => recording' = recording]_vars

\* C4 as amended: set_recording stores the requested value whatever playing
\* is: after a startRecording request recording is true, also while playing.
C4_StoredWhilePlaying ==
    /\ req = "startRecording" => recording
    /\ req = "stopRecording" => ~recording

\* C4 witness: startRecording was served while playing was true.
C4_Witness == req = "startRecording" /\ playing /\ recording

\* C5 as stated: after clear_input_list, playing is false.
C5_ClearStopsPlayback == req = "clear_input_list" => ~playing

\* C5 as amended: clear_input_list binds the recorded sequence to a new empty
\* list and changes nothing else: playing keeps its value and a pass in
\* progress keeps its list object and its position.
C5_ClearOnlyEmpties ==
    [][Arrives("clear_input_list")
         => /\ has_input_list' /\ input_list' = <<>>
            /\ playing' = playing
            /\ UNCHANGED <<pc, iter_list, iter_idx, recording, packet>>]_vars

\* C5 witness: the sequence was cleared during a pass that still has a packet
\* of the old list to write, and playing is still true.
C5_Witness ==
    /\ req = "clear_input_list" /\ playing
    /\ input_list = <<>>
    /\ pc = "L105" /\ ~iter_current
    /\ iter_idx < Len(iter_list)

\* C6 as stated: right after a startPlayback request, the next recorded
\* packet the loop writes is the element at index 0.
C6_StartRewinds ==
    [][(Arrives("startPlayback") /\ pc' = "L105" /\ iter_idx' < Len(iter_list'))
         => iter_idx' = 0]_vars

\* C6 as amended: set_playing only stores the flag; the position is 0 when
\* line 104 starts a pass, and a startPlayback request served during a pass
\* leaves the pass and its position as they are.
C6_RewindOnlyAtPassStart ==
    [][/\ Arrives("startPlayback")
            => playing' /\ UNCHANGED <<pc, iter_list, iter_idx, pass_sent>>
       /\ (pc = "L104" /\ pc' # "L104")
            => pc' = "L105" /\ iter_idx' = 0 /\ iter_list' = input_list]_vars

\* C6 witness: startPlayback was the last request, and a pass is between its
\* first and its last packet.
C6_Witness ==
    /\ req = "startPlayback" /\ playing
    /\ pc = "L105"
    /\ 0 < iter_idx /\ iter_idx < Len(iter_list)

\* C7: packet k+1 of a pass is written right after packet k, with no other
\* write and no pause between; a complete pass has written the whole list in
\* order; and the first packet of a pass never comes right after a played
\* packet: the pause (or a direct tick) lies between.
C7_PassThenPause ==
    /\ (pc = "L105" /\ iter_idx > 0)
          => /\ last_tx = "play"
             /\ direct_input = iter_list[iter_idx]
    /\ pc \in {"L105", "L108"} => pass_sent = SubSeq(iter_list, 1, iter_idx)
    /\ pc = "L108" => iter_idx = Len(iter_list)
    /\ (pc \in {"L103", "L104"} \/ (pc = "L105" /\ iter_idx = 0))
          => last_tx # "play"

\* C7 witness: a pass over two packets ended with its last packet, the pause
\* was taken, playing is still true and the next pass is about to write P1.
C7_Witness ==
    /\ pc = "L105" /\ iter_idx = 0
    /\ playing /\ tick_playing
    /\ last_tx = "pause"
    /\ Len(iter_list) = 2
    /\ iter_list[1] # iter_list[2]
    /\ direct_input = iter_list[2]

\* The restart commands in a log of commands.
Restarts(log) ==
    Cardinality({k \in 1..Len(log) :
                    log[k].argv = <<"systemctl", "restart", "bluetooth">>})

\* C8: a toggle_clean_bluez call whose argument already matches the override
\* (True with the file present, False with it absent) runs no command, raises
\* nothing and leaves the override, the loaded units and the service as they
\* are; and of two calls with True in a row, at most one restarts the service.
C8_NoOpWhenMatching ==
    [][n_calls' = n_calls + 1
         => /\ last_call'.arg = override_present
                => /\ cmd_log' = <<>>
                   /\ last_call'.raised = "none"
                   /\ UNCHANGED <<override_present, override_text,
                                  units_override, service_mode>>
            /\ (n_calls > 0 /\ last_call.arg /\ last_call'.arg)
                => Restarts(cmd_log) + Restarts(cmd_log') <= 1]_vars

\* C8 witness: toggle_clean_bluez(True) was called twice; the first call
\* wrote the override and restarted the service, the second ran nothing.
C8_Witness ==
    /\ n_calls = 2
    /\ last_call = [arg |-> TRUE, raised |-> "none"]
    /\ cmd_log = <<>>
    /\ override_present
    /\ service_mode = "clean"

\* C9: the override file is present exactly when the running service was
\* started under it, whatever calls were made and however they ended.
C9_OverrideIsTruth == override_present <=> (service_mode = "clean")

\* Octet j (1..6) of an address "o1:o2:o3:o4:o5:o6".
Octet(address, j) == address[2 * j - 1]

\* The command the claim expects first for adapter i.
ExpectedVendor(i) ==
    LET id == <<adapter_paths[i][Len(adapter_paths[i])]>>
        a == addresses[i]
    IN  <<Str("hcitool"), Str("-i"), id, Str("cmd"), Str("0x3f"),
          Str("0x001")>>
        \o [j \in 1..6 |-> <<"0x", Octet(a, 7 - j)>>]

\* The command the claim expects second for adapter i.
ExpectedReset(i) ==
    <<Str("hciconfig"), <<adapter_paths[i][Len(adapter_paths[i])]>>,
      Str("reset")>>

\* The commands run are, adapter after adapter, the vendor command with the
\* octets reversed and then the reset of the same adapter.
C10_InOrder ==
    \A k \in 1..Len(cmd_log) :
        LET i == (k + 1) \div 2
        IN  /\ i <= Len(adapter_paths)
            /\ cmd_log[k].argv = IF k % 2 = 1 THEN ExpectedVendor(i)
                                 ELSE ExpectedReset(i)

\* No reset follows a vendor command that exited with a failure.
C10_NoResetAfterFailure ==
    \A k \in 1..Len(cmd_log) :
        k % 2 = 0 => cmd_log[k - 1].exit = 0

\* C10: for every adapter in turn, the vendor command with the address's
\* octets reversed, then the reset of that adapter, before the next adapter's
\* commands; and never a reset for an adapter whose vendor command failed.
C10_VendorThenReset == C10_InOrder /\ C10_NoResetAfterFailure

\* The paths find_connected_devices is to return: the connected devices
\* whose alias is the filter, case ignored, or all of them without a filter.
ExpectedConnected(objs, filter) ==
    LET keep(o) == /\ o.is_device
                   /\ o.connected
                   /\ (filter = <<>> \/ Upper(o.alias) = Upper(filter))
        kept == SelectSeq(objs, keep)
    IN  [k \in 1..Len(kept) |-> kept[k].path]

\* The value returned is for the objects as they are now.
FindFresh ==
    /\ find_called
    /\ conn_devices = FindLoop(<<>>, find_objects(objects), alias_filter)

C11_ListBuilt ==
    FindFresh => conn_devices = ExpectedConnected(objects, alias_filter)

\* A step of main_thread that writes server.state['direct_input'] (lines 105
\* and 110) or appends to the recorded sequence (line 112).
WriteStep ==
    \/ pc = "L110" /\ pc' = "L111"
    \/ pc = "L105" /\ iter_idx' = iter_idx + 1
    \/ pc = "L112" /\ pc' = "L103"

\* C12: whenever main_thread writes a packet to server.state['direct_input']
\* or appends to the recorded sequence, server.state['state'] is 'connected'.
C12_WritesOnlyConnected ==
    [][WriteStep => server_state = "connected"]_vars

\* No write happens before 'connected' was observed at line 96.
C12_NoWriteBeforeConnected ==
    [][WriteStep => server_state # "initializing"]_vars

\* C13: when hcitool or hciconfig is missing, replace_mac_addresses raises
\* before it runs any command: no vendor command and no reset is ever in the
\* log, and the call never gets into its loop.
C13_MissingToolRaisesFirst ==
    (~hcitool_present \/ ~hciconfig_present) =>
        /\ cmd_log = <<>>
        /\ mac_pc \in {"idle", "raised"}
        /\ mac_pc = "raised" => mac_raised = "Exception"

C13_Witness ==
    /\ hcitool_present
    /\ ~hciconfig_present
    /\ Len(adapter_paths) = 2
    /\ Len(addresses) = 2
    /\ mac_pc = "raised"
    /\ mac_raised = "Exception"
    /\ cmd_log = <<>>

\* The service definition has no line starting with ExecStart=.
Malformed(lines) == \A k \in 1..Len(lines) : ~StartsWithExecStart(lines[k])

\* C14: toggle_clean_bluez(True) with no override present, on a host whose
\* service definition is absent or has no ExecStart line, fails with an
\* error, creates no override, and runs neither daemon-reload nor restart.
C14_BadServiceFileFails ==
    [][(/\ n_calls' = n_calls + 1
        /\ last_call'.arg
        /\ ~override_present
        /\ (~service_file_exists \/ Malformed(service_file)))
       => /\ last_call'.raised \in {"FileNotFoundError", "Exception"}
          /\ cmd_log' = <<>>
          /\ UNCHANGED <<override_present, override_text, units_override,
                         service_mode>>]_vars

C14_Witness ==
    /\ is_root
    /\ service_file_exists
    /\ Malformed(service_file)
    /\ n_calls > 0
    /\ last_call = [arg |-> TRUE, raised |-> "Exception"]
    /\ ~override_present
    /\ cmd_log = <<>>

\* A step that transmits a packet of the recorded sequence (line 105).
PlayStep == pc = "L105" /\ iter_idx' = iter_idx + 1

\* A step that transmits the desired packet (line 110).
DirectStep == pc = "L110" /\ pc' = "L111"

\* C15: the playing flag is honoured at every transmission; once playing is
\* false the loop transmits no further packet of the recorded sequence.
C15_HonouredEveryTick ==
    [][PlayStep => playing]_vars

\* C15 (amended): playing is read once per tick, at line 103.  A tick that
\* read true starts a pass and transmits packets of the recorded sequence
\* only; a tick that read false transmits the desired packet.  The flag is
\* not read again while a pass is transmitted.
C15_ReadOncePerTick ==
    [][/\ (pc = "L103" /\ pc' # "L103") =>
              /\ tick_playing' = playing
              /\ pc' = IF playing THEN "L104" ELSE "L110"
       /\ PlayStep =>
              /\ tick_playing
              /\ direct_input' = iter_list[iter_idx + 1]
       /\ DirectStep =>
              /\ ~tick_playing
              /\ direct_input' = JsonCopy(packet)
       /\ (pc \in {"L104", "L105", "L108"} /\ pc' # "L103") =>
              /\ pc' \in {"L104", "L105", "L108"}
              /\ tick_playing']_vars

\* stopPlayback arrived in the middle of a pass that has packets left.
C15_Witness ==
    /\ req = "stopPlayback"
    /\ ~playing
    /\ tick_playing
    /\ pc = "L105"
    /\ iter_idx >= 1
    /\ iter_idx < Len(iter_list)

\* C16: the packet a recording tick appends to the recorded sequence (line
\* 112) is the packet the same tick transmitted (line 110), whatever
\* /api/gamepad requests arrive in between.
C16_AppendedIsTransmitted ==
    [][(pc = "L112" /\ pc' = "L103") =>
           /\ Len(input_list') = Len(input_list) + 1
           /\ Last(input_list') = direct_input]_vars

\* C17: the input loop is the only activity that modifies the recorded
\* sequence: wrapper['input_list'] changes only in steps of main_thread.
C17_LoopIsSoleWriter ==
    [][input_list' # input_list => pc' # pc]_vars

\* C17 (amended): wrapper['input_list'] is written by main_thread at lines
\* 101 and 112 and by the handlers set_input_list and clear_input_list, and
\* by nothing else; get_gamepad, set_recording and set_playing leave it as
\* it is.
C17_WritersOfInputList ==
    [][(input_list' # input_list \/ has_input_list' # has_input_list) =>
           \/ pc \in {"L101", "L112"} /\ pc' = "L103"
           \/ pc' = pc /\ req' \in {"set_input_list", "clear_input_list"}]_vars

\* A handler stored a sequence while the loop was running.
C17_Witness ==
    /\ req = "set_input_list"
    /\ pc \notin {"L96", "L101"}
    /\ input_list # <<>>
    /\ rec_log = <<>>

\* _run_command raised for the k-th command replace_mac_addresses ran: it
\* is the last one in the log and the call ended with its Exception.
RaisedFor(k) ==
    /\ k = Len(cmd_log)
    /\ mac_pc = "raised"
    /\ mac_raised = "Exception"

\* C18: _run_command raises exactly for the commands that ran
\* unsuccessfully: a non-zero exit status always raises, a zero exit status
\* never does.
C18_RaisesIffUnsuccessful ==
    \A k \in 1..Len(cmd_log) : (cmd_log[k].exit # 0) <=> RaisedFor(k)

\* main_thread is in the playback branch (lines 104-109).
InPlayback == pc \in {"L104", "L105", "L108"}

\* C19: if playing is set to false and stays false, the loop, run fairly,
\* leaves playback after the pass in progress and the pause, and stays out
\* of it: from then on its ticks take the branch of line 110.
C19_StopPlaybackTakesEffect ==
    <>[](~playing) => <>[](~InPlayback /\ ~tick_playing)

\* After a pass was played and stopPlayback served, the loop has transmitted
\* the desired packet.
C19_Witness ==
    /\ req = "stopPlayback"
    /\ ~playing
    /\ pass_sent # <<>>
    /\ last_tx = "direct"
    /\ pc = "L111"
    /\ direct_input = packet

\* C20: the recorded sequence exists from startup and is retained:
\* get_input_list never fails, and the sequence changes only by
\* clear_input_list, by set_input_list or by a recording append (not by the
\* transition to 'connected').
C20_ExistsAndRetained ==
    /\ [](req # "get_input_list:KeyError")
    /\ [][input_list' # input_list =>
              \/ pc' = pc /\ req' \in {"set_input_list", "clear_input_list"}
              \/ pc = "L112" /\ pc' = "L103"]_vars

\* get_input_list is never served before the key is in the dict.
C20_ReadableFromStartup == req # "get_input_list:KeyError"

\* Once connected, no step of main_thread other than the append of line 112
\* changes the sequence a handler stored.
C20_RetainedOnceConnected ==
    [][(input_list' # input_list /\ pc # "L101") =>
           \/ pc' = pc /\ req' \in {"set_input_list", "clear_input_list"}
           \/ pc = "L112" /\ pc' = "L103"]_vars

====
